---- MODULE Spec2Model ----
(***************************************************************************)
(* Model of src/si.py (Scrittura Intelligente).                            *)
(*                                                                         *)
(* A text is a sequence of one-character strings.  The text analysis       *)
(* (analizza_stile), the style classifier (determina_stile_dominante) and  *)
(* the Streamlit script (submit handler, result tabs) are translated from  *)
(* the source.  The external calls (word_tokenize, sent_tokenize, pos_tag, *)
(* flesch_reading_ease) are inputs of the environment: each invocation may *)
(* raise, and the code's bare `except:` clauses then take the fallback.    *)
(*                                                                         *)
(* Python floats are modelled as exact fractions <<num, den>> with         *)
(* den > 0; a division by zero is the fraction <<0, 0>> (DivisionePerZero) *)
(* which stands for the raised ZeroDivisionError.                          *)
(***************************************************************************)
EXTENDS Integers, Sequences, FiniteSets

VARIABLES
    testo,          \* analizza_stile's argument / the text area's content
    amb,            \* what the external calls of the latest run did
    pc,             \* position of the run
    analisi,        \* analizza_stile's return value
    stile,          \* determina_stile_dominante's return value
    session_state,  \* st.session_state: keys "analisi", "stile_dominante"
    ultima,         \* history: the latest submission that passed the gate
    vista           \* what the script run rendered (message, tab2, tab3)

vars == <<testo, amb, pc, analisi, stile, session_state, ultima, vista>>

----------------------------------------------------------------------------
(* Characters.  \w, \s and the rest, as Python's re classifies them.       *)

Spazi == {" "}
Terminatori == {".", "!", "?"}
Simboli == Terminatori \cup {",", ";", ":"}

\* \w : a character that is neither whitespace nor punctuation
CarattereParola(c) == c \notin Spazi /\ c \notin Simboli

\* str.lower() on one character
Minuscolo(c) ==
    CASE c = "M" -> "m"
      [] c = "B" -> "b"
      [] OTHER -> c

\* str.lower()
lower(t) == [i \in 1..Len(t) |-> Minuscolo(t[i])]

\* re.sub(r'[^\w\s]', '', testo)
RimuoviPunteggiatura(t) ==
    SelectSeq(t, LAMBDA c : CarattereParola(c) \/ c \in Spazi)

\* The maximal runs of kept characters of t, in order: a character of
\* `scarta` is dropped and ends a run, a character of `soli` is a run of its
\* own.  The k-th run goes from the k-th position that starts a run to the
\* k-th position that ends one.
Corse(t, scarta, soli) ==
    LET n == Len(t)
        isolati == scarta \cup soli
        unisce(i) == t[i] \notin isolati
        inizia(i) == t[i] \notin scarta /\ (i = 1 \/ ~unisce(i) \/ ~unisce(i - 1))
        finisce(i) == t[i] \notin scarta /\ (i = n \/ ~unisce(i) \/ ~unisce(i + 1))
        posizioni == [i \in 1..n |-> i]
        inizi == SelectSeq(posizioni, inizia)
        fini == SelectSeq(posizioni, finisce)
    IN [k \in 1..Len(inizi) |-> SubSeq(t, inizi[k], fini[k])]

\* re.findall(r'\b\w+\b', testo): the maximal runs of word characters
RegexParole(t) == Corse(t, Spazi \cup Simboli, {})

\* f.strip() is not empty
NonVuoto(f) == \E i \in 1..Len(f) : f[i] \notin Spazi

\* len([f for f in re.split(r'[.!?]+', testo) if f.strip()])
RegexFrasi(t) ==
    LET segmenti == Corse(t, Terminatori, {})
    IN Cardinality({i \in 1..Len(segmenti) : NonVuoto(segmenti[i])})

----------------------------------------------------------------------------
(* The external toolkit, when a call succeeds.                             *)

\* nltk word_tokenize: splits at whitespace and makes every punctuation
\* mark a token of its own
word_tokenize(t) == Corse(t, Spazi, Simboli)

\* nltk sent_tokenize, as the number of sentences: a sentence ends at a
\* terminator followed by whitespace or by the end of the text
sent_tokenize(t) ==
    LET confini == {i \in 1..Len(t) :
                       t[i] \in Terminatori /\ (i = Len(t) \/ t[i + 1] \in Spazi)}
        resto == {i \in 1..Len(t) : t[i] \notin Spazi /\ \A c \in confini : c < i}
    IN Cardinality(confini) + (IF resto = {} THEN 0 ELSE 1)

\* nltk pos_tag with a tagger that assigns the tags of `schema` cyclically
pos_tag(parole, schema) ==
    [i \in 1..Len(parole) |-> <<parole[i], schema[((i - 1) % Len(schema)) + 1]>>]

----------------------------------------------------------------------------
(* Fractions.                                                              *)

DivisionePerZero == <<0, 0>>
Zero == <<0, 1>>

\* a / b
Dividi(a, b) == IF b = 0 THEN DivisionePerZero ELSE <<a, b>>

Somma(p, q) == <<p[1] * q[2] + q[1] * p[2], p[2] * q[2]>>
Minore(p, q) == p[1] * q[2] < q[1] * p[2]
Uguale(p, q) == p[1] * q[2] = q[1] * p[2]
MinoreUguale(p, q) == p[1] * q[2] <= q[1] * p[2]

Insieme(s) == {s[i] : i \in 1..Len(s)}

----------------------------------------------------------------------------
(* src/si.py, lines 70-111: the helpers with their fallbacks.              *)

\* variant: the ratio of line 81 upside down, len(parole) / len(set(parole))
calcola_diversita_invertita(t, fallito) ==
    LET parole == IF fallito
                  THEN RegexParole(lower(t))
                  ELSE word_tokenize(RimuoviPunteggiatura(lower(t)))
    IN IF Len(parole) = 0
       THEN Zero
       ELSE Dividi(Len(parole), Cardinality(Insieme(parole)))

\* calcola_diversita_lessicale(testo); fallito: word_tokenize raised
calcola_diversita_lessicale(t, fallito) ==
    LET parole == IF fallito
                  THEN RegexParole(lower(t))
                  ELSE word_tokenize(RimuoviPunteggiatura(lower(t)))
    IN IF Len(parole) = 0
       THEN Zero
       ELSE Dividi(Cardinality(Insieme(parole)), Len(parole))

\* tokenizza_testo(testo)
tokenizza_testo(t, fallito) ==
    IF fallito THEN RegexParole(t) ELSE word_tokenize(t)

\* variant: line 98 without its filter "if f.strip()", so that blank
\* segments count as sentences
conta_frasi_senza_filtro(t, fallito) ==
    IF fallito THEN Len(Corse(t, Terminatori, {})) ELSE sent_tokenize(t)

\* conta_frasi(testo)
conta_frasi(t, fallito) ==
    IF fallito THEN RegexFrasi(t) ELSE sent_tokenize(t)

TagAggettivi == {"JJ", "JJR", "JJS"}
TagAvverbi == {"RB", "RBR", "RBS"}
\* variant: a verb class that overlaps the noun class
TagVerbiConNomi == {"VB", "VBD", "VBG", "VBN", "VBP", "VBZ", "NN"}
TagVerbi == {"VB", "VBD", "VBG", "VBN", "VBP", "VBZ"}
TagSostantivi == {"NN", "NNS", "NNP", "NNPS"}

ContaTag(tagged, tags) ==
    Cardinality({i \in 1..Len(tagged) : tagged[i][2] \in tags})

\* analizza_pos(parole); esito: what pos_tag did
analizza_pos(parole, esito) ==
    IF esito.ok
    THEN LET tagged == pos_tag(parole, esito.val)
         IN [aggettivi |-> ContaTag(tagged, TagAggettivi),
             avverbi |-> ContaTag(tagged, TagAvverbi),
             verbi |-> ContaTag(tagged, TagVerbi),
             sostantivi |-> ContaTag(tagged, TagSostantivi)]
    ELSE [aggettivi |-> Len(parole) \div 10,
          avverbi |-> Len(parole) \div 20,
          verbi |-> Len(parole) \div 5,
          sostantivi |-> Len(parole) \div 3]

\* parole_pos_lista, parole_neg_lista (lines 145-146)
parole_pos_lista ==
    {<<"b", "u", "o", "n", "o">>,
     <<"b", "e", "l", "l", "o">>,
     <<"f", "a", "n", "t", "a", "s", "t", "i", "c", "o">>,
     <<"e", "c", "c", "e", "l", "l", "e", "n", "t", "e">>,
     <<"m", "e", "r", "a", "v", "i", "g", "l", "i", "o", "s", "o">>,
     <<"p", "o", "s", "i", "t", "i", "v", "o">>,
     <<"f", "e", "l", "i", "c", "e">>,
     <<"g", "i", "o", "i", "a">>,
     <<"b", "e", "n", "e">>,
     <<"p", "e", "r", "f", "e", "t", "t", "o">>}

parole_neg_lista ==
    {<<"c", "a", "t", "t", "i", "v", "o">>,
     <<"b", "r", "u", "t", "t", "o">>,
     <<"t", "e", "r", "r", "i", "b", "i", "l", "e">>,
     <<"o", "r", "r", "i", "b", "i", "l", "e">>,
     <<"p", "e", "s", "s", "i", "m", "o">>,
     <<"n", "e", "g", "a", "t", "i", "v", "o">>,
     <<"t", "r", "i", "s", "t", "e">>,
     <<"d", "o", "l", "o", "r", "e">>,
     <<"m", "a", "l", "e">>,
     <<"d", "i", "f", "e", "t", "t", "o", "s", "o">>}

\* variant: lines 148-149 without word.lower()
ContaInListaSensibile(parole, lista) ==
    Cardinality({i \in 1..Len(parole) : parole[i] \in lista})

\* sum(1 for word in parole if word.lower() in lista)
ContaInLista(parole, lista) ==
    Cardinality({i \in 1..Len(parole) : lower(parole[i]) \in lista})

LeggibilitaDefault == 60

\* variant: line 126 without its guard "if frasi_totali > 0"
lunghezza_media_senza_guardia(parole_totali, frasi_totali) ==
    Dividi(parole_totali, frasi_totali)

\* lunghezza_media_frasi (line 126)
lunghezza_media_frasi(parole_totali, frasi_totali) ==
    IF frasi_totali > 0 THEN Dividi(parole_totali, frasi_totali) ELSE Zero

\* tono_positivo, tono_negativo (lines 150-151)
tono(trovate, parole, parole_totali) ==
    IF parole_totali > 0 THEN Dividi(trovate, Len(parole)) ELSE Zero

\* variant: lines 136-139 with no default stored in the except branch
leggibilita_senza_default(esito) == esito.val

\* try: flesch_reading_ease(testo) / except: 60 (lines 136-139)
leggibilita(esito) ==
    IF esito.ok THEN esito.val ELSE LeggibilitaDefault

\* analizza_stile(testo); a: what each external call did in this run
analizza_stile(t, a) ==
    LET testo_pulito == RimuoviPunteggiatura(t)
        parole == tokenizza_testo(testo_pulito, a.tok)
        frasi_totali == conta_frasi(t, a.sent)
        parole_totali == Len(parole)
        media == lunghezza_media_frasi(parole_totali, frasi_totali)
        conteggi == analizza_pos(parole, a.pos)
    IN [parole_totali |-> parole_totali,
        frasi_totali |-> frasi_totali,
        lunghezza_media_frasi |-> media,
        vocab_unico |-> Cardinality(Insieme(parole)),
        ricchezza_lessicale |-> calcola_diversita_lessicale(t, a.div),
        aggettivi |-> conteggi.aggettivi,
        avverbi |-> conteggi.avverbi,
        verbi |-> conteggi.verbi,
        sostantivi |-> conteggi.sostantivi,
        leggibilita |-> leggibilita(a.flesch),
        complessita_sintattica |-> media,
        tono_positivo |-> tono(ContaInLista(parole, parole_pos_lista), parole, parole_totali),
        tono_negativo |-> tono(ContaInLista(parole, parole_neg_lista), parole, parole_totali)]

\* the float-valued fields of the record
CampiFrazione ==
    {"lunghezza_media_frasi", "ricchezza_lessicale", "complessita_sintattica",
     "tono_positivo", "tono_negativo"}

\* the call raised ZeroDivisionError instead of returning the record
Solleva(an) == \E f \in CampiFrazione : an[f] = DivisionePerZero

----------------------------------------------------------------------------
(* src/si.py, lines 169-195: determina_stile_dominante.                    *)

\* the keys of punteggi, in insertion order
Etichette == <<"narrativo", "descrittivo", "argomentativo", "espositivo">>

Meta == <<1, 2>>
Uno == <<1, 1>>
ValoreAssoluto(x) == IF x < 0 THEN -x ELSE x

\* punteggi after lines 179-193
punteggi(an) ==
    [e \in Insieme(Etichette) |->
        CASE e = "narrativo" ->
                 IF an.parole_totali > 0
                 THEN Somma(Dividi(an.verbi, an.parole_totali),
                            IF /\ MinoreUguale(<<15, 1>>, an.lunghezza_media_frasi)
                               /\ MinoreUguale(an.lunghezza_media_frasi, <<25, 1>>)
                            THEN Meta ELSE Zero)
                 ELSE Zero
          [] e = "descrittivo" ->
                 IF an.parole_totali > 0
                 THEN Dividi(an.aggettivi, an.parole_totali)
                 ELSE Zero
          [] e = "argomentativo" ->
                 Somma(an.ricchezza_lessicale,
                       IF Minore(<<20, 1>>, an.lunghezza_media_frasi)
                       THEN Meta ELSE Zero)
          [] e = "espositivo" ->
                 Somma(Uno, <<-ValoreAssoluto(70 - an.leggibilita), 70>>)]

\* variant: a maximum where a later key replaces the best one also with an
\* equal score, so that the last of the equal labels is returned
RECURSIVE MassimoUltimo(_, _, _)
MassimoUltimo(p, i, migliore) ==
    IF i > Len(Etichette)
    THEN migliore
    ELSE MassimoUltimo(p, i + 1,
             IF MinoreUguale(p[migliore], p[Etichette[i]])
             THEN Etichette[i] ELSE migliore)

\* max(punteggi, key=punteggi.get): the keys are visited in insertion order
\* and a later key replaces the best one only with a strictly greater score
RECURSIVE Massimo(_, _, _)
Massimo(p, i, migliore) ==
    IF i > Len(Etichette)
    THEN migliore
    ELSE Massimo(p, i + 1,
             IF Minore(p[migliore], p[Etichette[i]]) THEN Etichette[i] ELSE migliore)

\* a division by zero in lines 181 or 186 raises instead of returning a label
determina_stile_dominante(an) ==
    IF \E e \in Insieme(Etichette) : punteggi(an)[e][2] = 0
    THEN "ZeroDivisionError"
    ELSE Massimo(punteggi(an), 2, Etichette[1])

----------------------------------------------------------------------------
(* Inputs: texts and behaviours of the external calls.                     *)

Parole ==
    {<<"b", "e", "n", "e">>, <<"m", "a", "l", "e">>, <<"M", "a", "l", "e">>}
Separatori == {<<" ">>, <<"!">>}
Pezzi == Parole \cup Separatori

\* the text u * k
RECURSIVE Ripeti(_, _)
Ripeti(u, k) ==
    IF k = 0
    THEN <<>>
    ELSE LET h == Ripeti(u, k \div 2)
         IN IF k % 2 = 0 THEN h \o h ELSE h \o h \o u

MaxRipetizioni == 26

\* how many times a text repeats its unit: none, once, nine times, and around
\* the sentence lengths 15, 20 and 25 that lines 182 and 190 compare with
Ripetizioni == {0, 1, 9, 15, 21, MaxRipetizioni}

\* a text: at most one piece, then a unit (a separator and a piece) repeated
Prefissi == {<<>>} \cup Pezzi
Unita == {q \o p : q \in Separatori, p \in Pezzi}

Testi == {pre \o Ripeti(u, k) : pre \in Prefissi, u \in Unita, k \in Ripetizioni}

Schemi == {<<"JJ">>, <<"VBD", "JJR">>, <<"NN", "RB", "VB">>}
EsitiPos == {[ok |-> FALSE, val |-> <<>>]} \cup {[ok |-> TRUE, val |-> s] : s \in Schemi}

Punteggi == {35, 70}
EsitiFlesch == {[ok |-> FALSE, val |-> 0]} \cup {[ok |-> TRUE, val |-> v] : v \in Punteggi}

Ambienti ==
    [tok : BOOLEAN, sent : BOOLEAN, div : BOOLEAN, pos : EsitiPos, flesch : EsitiFlesch]

NessunAmbiente == [tok |-> FALSE, sent |-> FALSE, div |-> FALSE,
                   pos |-> [ok |-> FALSE, val |-> <<>>],
                   flesch |-> [ok |-> FALSE, val |-> 0]]
NessunaAnalisi == [parole_totali |-> -1]
NessunaVista == [messaggio |-> "", attuali |-> 0, tab2 |-> "", tab3 |-> ""]

----------------------------------------------------------------------------
(* The two functions applied to one text: analizza_stile, then             *)
(* determina_stile_dominante on its result.                                *)

InitAnalisi ==
    /\ testo \in Testi
    /\ amb = NessunAmbiente
    /\ pc = "avvio"
    /\ analisi = NessunaAnalisi
    /\ stile = ""
    /\ session_state = <<>>
    /\ ultima = <<>>
    /\ vista = NessunaVista

Analizza ==
    /\ pc = "avvio"
    /\ \E a \in Ambienti :
          /\ amb' = a
          /\ analisi' = analizza_stile(testo, a)
    /\ pc' = "analizzato"
    /\ UNCHANGED <<testo, stile, session_state, ultima, vista>>

Determina ==
    /\ pc = "analizzato"
    /\ ~Solleva(analisi)
    /\ stile' = determina_stile_dominante(analisi)
    /\ pc' = "determinato"
    /\ UNCHANGED <<testo, amb, analisi, session_state, ultima, vista>>

NextAnalisi == Analizza \/ Determina

SpecAnalisi == InitAnalisi /\ [][NextAnalisi]_vars

----------------------------------------------------------------------------
(* src/si.py, lines 298-435: the Streamlit script.  Every interaction runs *)
(* the script from the top: the submit handler (when the button was        *)
(* clicked), then the results tab, then the strategies tab.  An exception  *)
(* ends the run where it is raised.                                        *)

SogliaParole == 50

\* line 313, negated: the submission goes on to the analysis
SogliaSuperata(parole_count) == ~(parole_count < SogliaParole)

\* st.session_state.<chiave> = valore
Assegna(ss, chiave, valore) ==
    [k \in (DOMAIN ss) \cup {chiave} |-> IF k = chiave THEN valore ELSE ss[k]]

\* variant: line 321 alone, the label of line 322 is not stored
SalvaSoloAnalisi(ss, an, st) == Assegna(ss, "analisi", an)

\* lines 321-322
Salva(ss, an, st) ==
    Assegna(Assegna(ss, "analisi", an), "stile_dominante", st)

Eccezioni == {"ZeroDivisionError", "AttributeError"}

\* with tab2 (lines 326-397)
Tab2(ss) ==
    IF "analisi" \notin DOMAIN ss
    THEN "segnaposto"
    ELSE IF "stile_dominante" \notin DOMAIN ss
    THEN "AttributeError"
    ELSE LET an == ss["analisi"]
             sizes == <<an.sostantivi, an.verbi, an.aggettivi, an.avverbi,
                        an.parole_totali
                          - (an.sostantivi + an.verbi + an.aggettivi + an.avverbi)>>
         IN IF \E i \in 1..Len(sizes) :
                   Dividi(sizes[i], an.parole_totali) = DivisionePerZero
            THEN "ZeroDivisionError"
            ELSE "risultati"

\* with tab3 (lines 399-435)
Tab3(ss) ==
    IF "analisi" \notin DOMAIN ss
    THEN "segnaposto"
    ELSE IF "stile_dominante" \notin DOMAIN ss
    THEN "AttributeError"
    ELSE LET an == ss["analisi"]
         IN IF Dividi(an.aggettivi, an.parole_totali) = DivisionePerZero
            THEN "ZeroDivisionError"
            ELSE "strategie"

\* the rest of a run after tab1: what the two result tabs render
Rendi(ss, messaggio, attuali) ==
    LET t2 == Tab2(ss)
    IN [messaggio |-> messaggio,
        attuali |-> attuali,
        tab2 |-> t2,
        tab3 |-> IF t2 \in Eccezioni THEN "non_eseguito" ELSE Tab3(ss)]

\* texts long enough to meet the gate, or one unit short of it
RipetizioniSessione == {SogliaParole - 1, SogliaParole}
UnitaSessione ==
    {q \o p : q \in Separatori, p \in {<<"m", "a", "l", "e">>, <<"!">>}}
TestiSessione == {Ripeti(u, k) : u \in UnitaSessione, k \in RipetizioniSessione}

\* the toolkit works for the whole analysis, or fails for the whole analysis
AmbientiSessione ==
    {[tok |-> FALSE, sent |-> FALSE, div |-> FALSE,
      pos |-> [ok |-> TRUE, val |-> <<"NN", "RB", "VB">>],
      flesch |-> [ok |-> TRUE, val |-> 70]],
     [tok |-> TRUE, sent |-> TRUE, div |-> TRUE,
      pos |-> [ok |-> FALSE, val |-> <<>>],
      flesch |-> [ok |-> FALSE, val |-> 0]]}

InitSessione ==
    /\ testo = <<>>
    /\ amb = NessunAmbiente
    /\ pc = "sessione"
    /\ analisi = NessunaAnalisi
    /\ stile = ""
    /\ session_state = <<>>
    /\ ultima = <<>>
    /\ vista = Rendi(<<>>, "", 0)

\* a run with the button clicked (lines 311-324), on text t; gate: the
\* gate's word_tokenize raised; a: the external calls of analizza_stile
Invia ==
    /\ pc = "sessione"
    /\ \E t \in TestiSessione, gate \in BOOLEAN, a \in AmbientiSessione :
       \E parole_count \in {Len(tokenizza_testo(t, gate))} :
          /\ testo' = t
          /\ IF ~SogliaSuperata(parole_count)
             THEN /\ vista' = Rendi(session_state, "avviso", parole_count)
                  /\ UNCHANGED <<session_state, ultima>>
             ELSE \E an \in {analizza_stile(t, a)} :
                  \E st \in {determina_stile_dominante(an)} :
                     IF Solleva(an) \/ st \in Eccezioni
                     THEN /\ vista' = [messaggio |-> "ZeroDivisionError",
                                       attuali |-> 0,
                                       tab2 |-> "non_eseguito",
                                       tab3 |-> "non_eseguito"]
                          /\ UNCHANGED <<session_state, ultima>>
                     ELSE /\ session_state' = Salva(session_state, an, st)
                          /\ ultima' = <<[testo |-> t, amb |-> a]>>
                          /\ vista' = Rendi(session_state', "completata", 0)
    /\ UNCHANGED <<amb, pc, analisi, stile>>

\* a run without a click
Ricarica ==
    /\ pc = "sessione"
    /\ vista' = Rendi(session_state, "", 0)
    /\ UNCHANGED <<testo, amb, pc, analisi, stile, session_state, ultima>>

NextSessione == Invia \/ Ricarica

SpecSessione == InitSessione /\ [][NextSessione]_vars

----------------------------------------------------------------------------
(* Properties.                                                             *)

Analizzato == pc \in {"analizzato", "determinato"}

\* C1: determina_stile_dominante returns the label with the highest score,
\* where narrativo = verbi/parole_totali (+1/2 if 15 <= lunghezza_media_frasi
\* <= 25) and descrittivo = aggettivi/parole_totali (both 0 without words),
\* argomentativo = ricchezza_lessicale (+1/2 if lunghezza_media_frasi > 20),
\* espositivo = 1 - |70 - leggibilita|/70; among equal maximal scores the
\* first label in the order narrativo, descrittivo, argomentativo,
\* espositivo is returned.
C1_Ordine == <<"narrativo", "descrittivo", "argomentativo", "espositivo">>

C1_Punteggio(an, e) ==
    LET m == an.lunghezza_media_frasi
        r == an.ricchezza_lessicale
        scarto == IF an.leggibilita > 70
                  THEN an.leggibilita - 70 ELSE 70 - an.leggibilita
    IN CASE e = "narrativo" ->
                IF an.parole_totali = 0
                THEN <<0, 1>>
                ELSE <<2 * an.verbi
                         + (IF 15 * m[2] <= m[1] /\ m[1] <= 25 * m[2]
                            THEN an.parole_totali ELSE 0),
                       2 * an.parole_totali>>
         [] e = "descrittivo" ->
                IF an.parole_totali = 0
                THEN <<0, 1>>
                ELSE <<an.aggettivi, an.parole_totali>>
         [] e = "argomentativo" ->
                <<2 * r[1] + (IF m[1] > 20 * m[2] THEN r[2] ELSE 0), 2 * r[2]>>
         [] e = "espositivo" -> <<70 - scarto, 70>>

C1_StileDominante ==
    pc = "determinato" =>
        \E k \in 1..4 :
            /\ stile = C1_Ordine[k]
            /\ \A j \in 1..4 :
                  LET pj == C1_Punteggio(analisi, C1_Ordine[j])
                      pk == C1_Punteggio(analisi, C1_Ordine[k])
                  IN /\ pj[1] * pk[2] <= pk[1] * pj[2]
                     /\ j < k => pj[1] * pk[2] < pk[1] * pj[2]

\* a tie at the top between descrittivo and argomentativo, settled for the
\* label that comes first
C1_Pareggio ==
    /\ pc = "determinato"
    /\ stile = "descrittivo"
    /\ LET pd == C1_Punteggio(analisi, "descrittivo")
           pa == C1_Punteggio(analisi, "argomentativo")
       IN pd[1] * pa[2] = pa[1] * pd[2]

\* C2: for a non-empty text, 0 <= ricchezza_lessicale <= 1 and
\* vocab_unico <= parole_totali, whichever tokenizer produced the words.
C2_RicchezzaLimitata ==
    (Analizzato /\ testo # <<>>) =>
        LET r == analisi.ricchezza_lessicale
        IN /\ r[2] > 0
           /\ 0 <= r[1]
           /\ r[1] <= r[2]
           /\ analisi.vocab_unico <= analisi.parole_totali

\* the regex fallback on a text that repeats a word
C2_RipiegoConRipetizioni ==
    /\ Analizzato
    /\ amb.tok
    /\ amb.div
    /\ analisi.ricchezza_lessicale[1] < analisi.ricchezza_lessicale[2]
    /\ analisi.vocab_unico < analisi.parole_totali

\* C3: no division by zero on degenerate input: the empty string gives
\* parole_totali = 0, frasi_totali = 0 and ricchezza_lessicale = 0;
\* lunghezza_media_frasi is parole_totali/frasi_totali when frasi_totali > 0
\* and 0 otherwise; both tones are 0 when parole_totali = 0; and
\* determina_stile_dominante returns one of the four labels.
C3_NessunaDivisionePerZero ==
    /\ Analizzato =>
          /\ \A f \in CampiFrazione : analisi[f][2] # 0
          /\ testo = <<>> =>
                /\ analisi.parole_totali = 0
                /\ analisi.frasi_totali = 0
                /\ analisi.ricchezza_lessicale[1] = 0
          /\ IF analisi.frasi_totali > 0
             THEN analisi.lunghezza_media_frasi[1] * analisi.frasi_totali
                    = analisi.parole_totali * analisi.lunghezza_media_frasi[2]
             ELSE analisi.lunghezza_media_frasi[1] = 0
          /\ analisi.parole_totali = 0 =>
                /\ analisi.tono_positivo[1] = 0
                /\ analisi.tono_negativo[1] = 0
    /\ pc = "determinato" =>
          stile \in {"narrativo", "descrittivo", "argomentativo", "espositivo"}

\* the empty string, analysed and classified
C3_StringaVuota ==
    /\ pc = "determinato"
    /\ testo = <<>>
    /\ analisi.parole_totali = 0
    /\ analisi.frasi_totali = 0
    /\ stile \in {"narrativo", "descrittivo", "argomentativo", "espositivo"}

\* C4: whatever external calls fail, analizza_stile returns a complete
\* record: a failed tokenizer gives the regex word split, a failed sentence
\* splitter the count of non-blank segments between runs of '.', '!', '?',
\* a failed tagger the counts (n div 10, n div 20, n div 5, n div 3), a
\* failed readability call the constant 60.
C4_Campi ==
    {"parole_totali", "frasi_totali", "lunghezza_media_frasi", "vocab_unico",
     "ricchezza_lessicale", "aggettivi", "avverbi", "verbi", "sostantivi",
     "leggibilita", "complessita_sintattica", "tono_positivo", "tono_negativo"}

\* the number of maximal runs of word characters: the positions where a run starts
C4_InizioParola(t) ==
    {i \in 1..Len(t) :
        CarattereParola(t[i]) /\ (i = 1 \/ ~CarattereParola(t[i - 1]))}

\* the segments between runs of terminators: a segment starts at a character
\* that is no terminator and follows a terminator or nothing; it counts when
\* a non-blank character comes before the next terminator
C4_SegmentiNonVuoti(t) ==
    LET n == Len(t)
        term == {i \in 1..n : t[i] \in Terminatori} \cup {n + 1}
        prossimo(i) == CHOOSE j \in term : j > i /\ \A k \in term : k > i => j <= k
    IN {i \in 1..n :
           /\ t[i] \notin Terminatori
           /\ (i = 1 \/ t[i - 1] \in Terminatori)
           /\ \E j \in i..(prossimo(i) - 1) : t[j] \notin Spazi}

C4_RipiegoSenzaErrore ==
    Analizzato =>
        /\ DOMAIN analisi = C4_Campi
        /\ ~Solleva(analisi)
        /\ amb.tok =>
              analisi.parole_totali
                = Cardinality(C4_InizioParola(RimuoviPunteggiatura(testo)))
        /\ amb.sent =>
              analisi.frasi_totali = Cardinality(C4_SegmentiNonVuoti(testo))
        /\ ~amb.pos.ok =>
              /\ analisi.aggettivi = analisi.parole_totali \div 10
              /\ analisi.avverbi = analisi.parole_totali \div 20
              /\ analisi.verbi = analisi.parole_totali \div 5
              /\ analisi.sostantivi = analisi.parole_totali \div 3
        /\ ~amb.flesch.ok => analisi.leggibilita = 60

\* all the external calls failed on a text of more than twenty words that
\* holds a terminator
C4_TuttoFallito ==
    /\ Analizzato
    /\ amb.tok /\ amb.sent /\ amb.div /\ ~amb.pos.ok /\ ~amb.flesch.ok
    /\ \E i \in 1..Len(testo) : testo[i] \in Terminatori
    /\ analisi.parole_totali >= 20
    /\ analisi.frasi_totali = 1
    /\ analisi.avverbi = 1
    /\ analisi.leggibilita = 60

\* C5: ricchezza_lessicale is vocab_unico / parole_totali of the same record
\* (0 without words), also when a word occurs in different letter case.
C5_RicchezzaDelRecord ==
    Analizzato =>
        LET r == analisi.ricchezza_lessicale
        IN IF analisi.parole_totali > 0
           THEN r[1] * analisi.parole_totali = analisi.vocab_unico * r[2]
           ELSE r[1] = 0

\* C6 as stated: when the readability call fails the stored readability is
\* clamp(0, 100, 100 - 1.5*avg_sentence_length - 8*avg_word_length).
C6_Formula(t, an) ==
    LET lettere == Cardinality({i \in 1..Len(t) : CarattereParola(t[i])})
        m == an.lunghezza_media_frasi
        \* 100 - 3/2 * m - 8 * lettere/parole, over the denominator 2 * m[2] * parole
        parole == IF an.parole_totali > 0 THEN an.parole_totali ELSE 1
        den == 2 * m[2] * parole
        num == 100 * den - 3 * m[1] * parole - 16 * lettere * m[2]
    IN IF num < 0 THEN <<0, 1>>
       ELSE IF num > 100 * den THEN <<100, 1>>
       ELSE <<num, den>>

C6_FormulaDiRipiego ==
    (Analizzato /\ ~amb.flesch.ok) =>
        LET v == C6_Formula(testo, analisi)
        IN analisi.leggibilita * v[2] = v[1]

\* C6 as amended: when flesch_reading_ease fails the stored readability is
\* the constant 60, whatever the sentence and word lengths, so it lies in
\* [0, 100].
C6_DefaultSessanta ==
    (Analizzato /\ ~amb.flesch.ok) =>
        /\ analisi.leggibilita = 60
        /\ 0 <= analisi.leggibilita
        /\ analisi.leggibilita <= 100

\* the call failed on a text with one sentence of more than 25 words
C6_FallitoSuFraseLunga ==
    /\ Analizzato
    /\ ~amb.flesch.ok
    /\ analisi.frasi_totali = 1
    /\ analisi.parole_totali > 25
    /\ analisi.leggibilita = 60

\* C7: with parole_totali > 0, tono_positivo (tono_negativo) is the number of
\* tokens whose lower-cased form is in the positive (negative) list, divided
\* by parole_totali, so it lies in [0, 1]; ten fallback-tokenized words with
\* one positive word give 1/10.
C7_Conta(parole, lista) ==
    Cardinality({i \in 1..Len(parole) : lower(parole[i]) \in lista})

C7_Tono ==
    (Analizzato /\ analisi.parole_totali > 0) =>
        LET parole == tokenizza_testo(RimuoviPunteggiatura(testo), amb.tok)
            np == C7_Conta(parole, parole_pos_lista)
            nn == C7_Conta(parole, parole_neg_lista)
            tp == analisi.tono_positivo
            tn == analisi.tono_negativo
        IN /\ tp[2] > 0 /\ tn[2] > 0
           /\ tp[1] * analisi.parole_totali = np * tp[2]
           /\ tn[1] * analisi.parole_totali = nn * tn[2]
           /\ 0 <= tp[1] /\ tp[1] <= tp[2]
           /\ 0 <= tn[1] /\ tn[1] <= tn[2]
           /\ (amb.tok /\ analisi.parole_totali = 10 /\ np = 1) =>
                  tp[1] * 10 = tp[2]

\* ten fallback-tokenized words, one of them positive, the others negative
\* and one of those capitalised
C7_UnaSuDieci ==
    /\ Analizzato
    /\ amb.tok
    /\ analisi.parole_totali = 10
    /\ analisi.tono_positivo[1] * 10 = analisi.tono_positivo[2]
    /\ analisi.tono_negativo[1] * 10 = 9 * analisi.tono_negativo[2]
    /\ \E i \in 1..Len(testo) : testo[i] = "M"

\* C8: a record held in session state has parole_totali > 0, so the result
\* tabs never divide by zero.
C8_ParoleTotaliPositive ==
    "analisi" \in DOMAIN session_state =>
        /\ session_state["analisi"].parole_totali > 0
        /\ vista.tab2 # "ZeroDivisionError"
        /\ vista.tab3 # "ZeroDivisionError"

\* C9: session state holds no result (and both tabs show the placeholder) or
\* exactly the pair (analisi, stile_dominante) of the latest submission that
\* passed the gate, with stile_dominante = determina_stile_dominante(analisi);
\* a rejected submission leaves both fields unchanged.
C9_Stato ==
    \/ /\ DOMAIN session_state = {}
       /\ ultima = <<>>
       /\ vista.tab2 = "segnaposto"
       /\ vista.tab3 = "segnaposto"
    \/ /\ DOMAIN session_state = {"analisi", "stile_dominante"}
       /\ ultima # <<>>
       /\ session_state["analisi"] = analizza_stile(ultima[1].testo, ultima[1].amb)
       /\ session_state["stile_dominante"]
            = determina_stile_dominante(session_state["analisi"])

C9_Passo ==
    /\ vista'.messaggio = "avviso" => session_state' = session_state
    /\ vista'.messaggio = "" => session_state' = session_state
    /\ session_state' # session_state => vista'.messaggio = "completata"

C9_Sessione == []C9_Stato /\ [][C9_Passo]_vars

\* a rejected submission after an accepted one: the earlier pair is kept
C9_RifiutoDopoSuccesso ==
    /\ vista.messaggio = "avviso"
    /\ ultima # <<>>
    /\ testo # ultima[1].testo
    /\ DOMAIN session_state = {"analisi", "stile_dominante"}

\* C10: aggettivi + avverbi + verbi + sostantivi <= parole_totali and each
\* count is >= 0, with the tagger and with the fallback estimate.
C10_ConteggiLimitati ==
    Analizzato =>
        /\ analisi.aggettivi >= 0
        /\ analisi.avverbi >= 0
        /\ analisi.verbi >= 0
        /\ analisi.sostantivi >= 0
        /\ analisi.aggettivi + analisi.avverbi + analisi.verbi + analisi.sostantivi
             <= analisi.parole_totali

\* the tagger put every word in one of the four classes: 'Altro' is 0
C10_AltroZero ==
    /\ Analizzato
    /\ amb.pos.ok
    /\ analisi.parole_totali >= 3
    /\ analisi.avverbi > 0 /\ analisi.verbi > 0 /\ analisi.sostantivi > 0
    /\ analisi.aggettivi + analisi.avverbi + analisi.verbi + analisi.sostantivi
         = analisi.parole_totali

====
